---- MODULE Spec2Model ----
(***************************************************************************)
(* Overlay window lifecycle, visibility flag and settings store of         *)
(* overlay-captions (src-tauri/src: lib.rs, commands.rs,                   *)
(* window_manager.rs, settings.rs).                                        *)
(*                                                                         *)
(* Threads: the UI command threads, the event-loop thread (tray menu, tray *)
(* icon, window events) and the worker thread spawned by the tray entry    *)
(* "show_overlay".  Every step is one lock operation, one window lookup or *)
(* one native window call; a native call may fail.                         *)
(***************************************************************************)
EXTENDS Naturals, FiniteSets, Sequences, TLC

\* number of triggers that may be executing at the same time
MaxInFlight == 2
\* number of finished triggers whose results the history keeps
MaxHist == 2
\* number of "toggle-overlay" events the model counts
MaxEmit == 2

UIThreads == {<<"ui", 1>>, <<"ui", 2>>}
Ev == <<"ev", 0>>
Wk == <<"wk", 0>>
Threads == UIThreads \cup {Ev, Wk}
Free == <<"free", 0>>

VARIABLES
    overlay,          \* the native window labelled "overlay"
    mainWin,          \* the native window labelled "main"
    overlay_visible,  \* AppState.overlay_visible
    settings,         \* AppState.settings
    settingsLock,     \* holder of the AppState.settings mutex
    visLock,          \* holder of the AppState.overlay_visible mutex
    pc,               \* position of each thread
    cmd,              \* the trigger each thread is executing
    ret,              \* result of the trigger (set when it ends)
    loc,              \* locals of each thread
    closeNotif,       \* a CloseRequested notification of the overlay is queued
    running,          \* the process has not exited
    pre,              \* history: the state in which the running trigger began
    hist,             \* history: what the first MaxHist triggers returned
    emitted,          \* number of "toggle-overlay" events sent to the UI
    file,             \* the settings file on disk
    saves             \* history: "none", "ok" (every save succeeded) or "failed"

vars == <<overlay, mainWin, overlay_visible, settings, settingsLock, visLock,
          pc, cmd, ret, loc, closeNotif, running, pre, hist, emitted, file, saves>>

----------------------------------------------------------------------------
(* settings.rs: AppSettings, its JSON form and the settings file *)

\* the fields of AppSettings the model keeps: overlay.click_through,
\* overlay.opacity (f32, in hundredths), font.color, font.line_height (f64,
\* in tenths) and last_session_code (Option<String>: <<>> is None)
AllSettings ==
    [click_through : BOOLEAN,
     opacity : {95, 50},
     color : {"#ffffff", "#ff0000"},
     line_height : {13, 15},
     last_session_code : {<<>>, <<"ABC123">>}]

\* impl Default for AppSettings
DefaultSettings ==
    [click_through |-> FALSE,
     opacity |-> 95,
     color |-> "#ffffff",
     line_height |-> 13,
     last_session_code |-> <<>>]

\* fn default_line_height() -> f64 { 1.3 }
default_line_height == 13

\* JSON values: a tag and the text of the value; Missing: the key is not there
JBool(b) == [t |-> "bool", v |-> IF b THEN "true" ELSE "false"]
JNum(txt) == [t |-> "num", v |-> txt]
JStr(str) == [t |-> "str", v |-> str]
JNull == [t |-> "null", v |-> "null"]
Missing == [t |-> "missing", v |-> ""]

\* mutant: an f32 printed with one digit after the point
M_FormatF32OneDigit(x) == IF x = 95 THEN "0.9" ELSE "0.5"

\* serde_json prints an f32 with the shortest text that reads back the same
FormatF32(x) == IF x = 95 THEN "0.95" ELSE "0.5"

\* serde_json reads a number into an f32
ParseF32(txt) ==
    CASE txt = "0.95" -> 95
      [] txt = "0.5" -> 50
      [] txt = "0.9" -> 90

\* serde_json prints and reads an f64
FormatF64(x) == IF x = 13 THEN "1.3" ELSE "1.5"
ParseF64(txt) == IF txt = "1.3" THEN 13 ELSE 15

\* serde_json::to_string_pretty(settings) with #[serde(rename_all = "camelCase")]
Serialize(st) ==
    [clickThrough |-> JBool(st.click_through),
     opacity |-> JNum(FormatF32(st.opacity)),
     color |-> JStr(st.color),
     lineHeight |-> JNum(FormatF64(st.line_height)),
     lastSessionCode |-> IF st.last_session_code = <<>>
                         THEN JNull
                         ELSE JStr(st.last_session_code[1])]

\* serde_json::from_str::<AppSettings>: a field without a serde default must
\* be there with a value of its type; line_height has a default; an Option
\* that is null or not there is None
FromStr(j) ==
    [ok |-> /\ j.clickThrough.t = "bool"
            /\ j.opacity.t = "num"
            /\ j.color.t = "str"
            /\ j.lineHeight.t \in {"num", "missing"}
            /\ j.lastSessionCode.t \in {"str", "null", "missing"},
     value |->
        [click_through |-> j.clickThrough.v = "true",
         opacity |-> IF j.opacity.t = "num" THEN ParseF32(j.opacity.v) ELSE 0,
         color |-> j.color.v,
         line_height |-> IF j.lineHeight.t = "num"
                         THEN ParseF64(j.lineHeight.v)
                         ELSE default_line_height,
         last_session_code |-> IF j.lastSessionCode.t = "str"
                               THEN <<j.lastSessionCode.v>>
                               ELSE <<>>]]

\* the settings file: not there, there with text that is not JSON (empty or
\* cut short), or there with a JSON object
AbsentFile == [kind |-> "absent", json |-> Serialize(DefaultSettings)]
MalformedFile == [kind |-> "malformed", json |-> Serialize(DefaultSettings)]
JsonFile(j) == [kind |-> "json", json |-> j]

\* load_settings(); readable: fs::read_to_string returned Ok
LoadSettings(f, readable) ==
    IF f.kind = "json" /\ readable /\ FromStr(f.json).ok
    THEN FromStr(f.json).value
    ELSE DefaultSettings

\* the files the process may find when it starts in the specifications of
\* the window code
InitFiles ==
    {AbsentFile, JsonFile(Serialize([DefaultSettings EXCEPT !.click_through = TRUE]))}

----------------------------------------------------------------------------
(* Native windows *)

\* settings.position and settings.size: the model keeps them at their defaults
DefaultPosition == <<500, 600>>
DefaultSize == <<600, 160>>

\* arguments the UI passes to set_overlay_position and set_overlay_size
Positions == {<<0, 0>>, <<100, 200>>}
Sizes == {<<800, 200>>, <<400, 100>>}

Absent == [count |-> 0, shown |-> FALSE, on_top |-> FALSE, ignore_cursor |-> FALSE,
           pos |-> <<0, 0>>, size |-> <<0, 0>>]

\* app.get_webview_window("overlay").is_some()
Exists(ov) == ov.count > 0

\* the overlay window is on screen
Shown(ov) == Exists(ov) /\ ov.shown

\* WebviewWindowBuilder ... .always_on_top(true) ... .visible(true) .build()
Built(ov) ==
    [count |-> ov.count + 1, shown |-> TRUE, on_top |-> TRUE, ignore_cursor |-> FALSE,
     pos |-> DefaultPosition, size |-> DefaultSize]

\* window.close() on the overlay
Closed(ov) == Absent

NoLoc == [is_visible |-> FALSE, click |-> FALSE, failed |-> FALSE, skipped |-> FALSE,
          arg |-> <<>>, content |-> Serialize(DefaultSettings)]
NoPre == [set |-> FALSE, overlay |-> Absent, mainWin |-> "shown", flag |-> FALSE,
          file |-> AbsentFile]
Snapshot == [set |-> TRUE, overlay |-> overlay, mainWin |-> mainWin, flag |-> overlay_visible,
             file |-> file]

\* no trigger is in the middle of executing
Quiescent == \A t \in Threads : pc[t] \in {"idle", "done"}
AllIdle == \A t \in Threads : pc[t] = "idle"
InFlight == {t \in Threads : pc[t] # "idle"}
\* a further trigger may start
Room == Cardinality(InFlight) < MaxInFlight

----------------------------------------------------------------------------
(* Initial state: run() *)

Init ==
    /\ overlay = Absent
    /\ mainWin = "shown"
    /\ overlay_visible = FALSE
    /\ file \in InitFiles
    /\ settings = LoadSettings(file, TRUE)
    /\ saves = "none"
    /\ settingsLock = Free
    /\ visLock = Free
    /\ pc = [t \in Threads |-> "idle"]
    /\ cmd = [t \in Threads |-> "none"]
    /\ ret = [t \in Threads |-> "none"]
    /\ loc = [t \in Threads |-> NoLoc]
    /\ closeNotif = FALSE
    /\ running = TRUE
    /\ pre = NoPre
    /\ hist = <<>>
    /\ emitted = 0

\* the files the process may find when it starts: none, one that is not
\* JSON, a saved AppSettings, or a saved AppSettings with one key taken out
Keys == {"clickThrough", "opacity", "color", "lineHeight", "lastSessionCode"}
Without(j, k) == [j EXCEPT ![k] = Missing]
LoadFiles ==
    {AbsentFile, MalformedFile}
        \cup {JsonFile(Serialize(st)) : st \in AllSettings}
        \cup {JsonFile(Without(Serialize(st), k)) : st \in AllSettings, k \in Keys}

\* run() is about to build AppState: load_settings() has not been called yet
InitLoad ==
    /\ overlay = Absent
    /\ mainWin = "shown"
    /\ overlay_visible = FALSE
    /\ file \in LoadFiles
    /\ settings = DefaultSettings
    /\ saves = "none"
    /\ settingsLock = Free
    /\ visLock = Free
    /\ pc = [t \in Threads |-> IF t = Ev THEN "run_load" ELSE "idle"]
    /\ cmd = [t \in Threads |-> IF t = Ev THEN "run" ELSE "none"]
    /\ ret = [t \in Threads |-> "none"]
    /\ loc = [t \in Threads |-> NoLoc]
    /\ closeNotif = FALSE
    /\ running = TRUE
    /\ pre = NoPre
    /\ hist = <<>>
    /\ emitted = 0

----------------------------------------------------------------------------
(* Step helpers *)

Goto(t, p) == pc' = [pc EXCEPT ![t] = p]

\* the outcome of a native call is recorded: good = it returned Ok
Native(t, good) == loc' = [loc EXCEPT ![t].failed = loc[t].failed \/ ~good]

\* the trigger of thread t ends with result r
Finish(t, r) ==
    /\ pc' = [pc EXCEPT ![t] = "done"]
    /\ ret' = [ret EXCEPT ![t] = r]

\* a UI command returns Err: every guard it holds is dropped
ReturnErr(t) ==
    /\ Finish(t, "err")
    /\ settingsLock' = IF settingsLock = t THEN Free ELSE settingsLock
    /\ visLock' = IF visLock = t THEN Free ELSE visLock

\* the trigger c starts on the idle thread t; snap: record the state it starts in
Begin(t, c, entry, snap) ==
    /\ running
    /\ pc[t] = "idle"
    /\ pc' = [pc EXCEPT ![t] = entry]
    /\ cmd' = [cmd EXCEPT ![t] = c]
    /\ ret' = [ret EXCEPT ![t] = "none"]
    /\ loc' = [loc EXCEPT ![t] = NoLoc]
    /\ pre' = IF snap THEN Snapshot ELSE pre
    /\ UNCHANGED <<overlay, mainWin, overlay_visible, settings, settingsLock,
                   visLock, running, hist, emitted, file, saves>>

\* the caller has taken the result; the thread is free for the next trigger
Return(t) ==
    /\ running
    /\ pc[t] = "done"
    /\ pc' = [pc EXCEPT ![t] = "idle"]
    /\ cmd' = [cmd EXCEPT ![t] = "none"]
    /\ ret' = [ret EXCEPT ![t] = "none"]
    /\ loc' = [loc EXCEPT ![t] = NoLoc]
    /\ pre' = NoPre
    /\ hist' = IF pre.set /\ Len(hist) < MaxHist
               THEN Append(hist, IF cmd[t] = "toggle_overlay" THEN ret[t] ELSE "other")
               ELSE hist
    /\ UNCHANGED <<overlay, mainWin, overlay_visible, settings, settingsLock,
                   visLock, closeNotif, running, emitted, file, saves>>

\* app.exit(0): the process ends and its windows go with it
Exit ==
    /\ running' = FALSE
    /\ overlay' = Absent
    /\ mainWin' = "closed"

----------------------------------------------------------------------------
(* window_manager.rs: create_overlay_window, called by show_overlay and by  *)
(* the tray worker                                                          *)

\* settings.click_through as the caller passes it
ClickThrough(t) == IF t = Wk THEN loc[t].click ELSE settings.click_through

\* create_overlay_window returned Ok(()) to its caller
CreateOk(t) ==
    /\ Goto(t, IF t = Wk THEN "wk_vlock" ELSE "so_vlock")
    /\ UNCHANGED <<ret, settingsLock, visLock>>

\* create_overlay_window returned Err: show_overlay propagates it with `?`,
\* the worker goes on to re-show the main window
CreateErr(t) ==
    IF t = Wk
    THEN Goto(t, "wk_recover") /\ UNCHANGED <<ret, settingsLock, visLock>>
    ELSE ReturnErr(t)

\* mutant: create_overlay_window without the check for an existing window
M_CwCheckNoSkip(t) ==
    /\ running
    /\ pc[t] = "cw_check"
    /\ Goto(t, "cw_build")
    /\ UNCHANGED <<ret, settingsLock, visLock, loc>>
    /\ UNCHANGED <<overlay, mainWin, overlay_visible, settings, cmd, closeNotif,
                   running, pre, hist, emitted, file, saves>>

\* if app.get_webview_window("overlay").is_some() { return Ok(()) }
CwCheck(t) ==
    /\ running
    /\ pc[t] = "cw_check"
    /\ IF Exists(overlay)
       THEN /\ CreateOk(t)
            /\ loc' = [loc EXCEPT ![t].skipped = TRUE]
       ELSE /\ Goto(t, "cw_build")
            /\ UNCHANGED <<ret, settingsLock, visLock, loc>>
    /\ UNCHANGED <<overlay, mainWin, overlay_visible, settings, cmd, closeNotif,
                   running, pre, hist, emitted, file, saves>>

\* the window manager refuses a second window with a label that is in use
LabelFree(ov) == ~Exists(ov)

\* let window = builder.build().map_err(|e| e.to_string())?;
CwBuild(t) ==
    /\ running
    /\ pc[t] = "cw_build"
    /\ \E ok \in BOOLEAN :
        /\ Native(t, ok)
        /\ IF ok /\ LabelFree(overlay)
           THEN /\ overlay' = Built(overlay)
                /\ Goto(t, "cw_top")
                /\ UNCHANGED <<ret, settingsLock, visLock>>
           ELSE /\ overlay' = overlay
                /\ CreateErr(t)
    /\ UNCHANGED <<mainWin, overlay_visible, settings, cmd, closeNotif, running, pre, hist, emitted, file, saves>>

\* window.set_always_on_top(true).map_err(|e| e.to_string())?;
CwTop(t) ==
    /\ running
    /\ pc[t] = "cw_top"
    /\ \E ok \in BOOLEAN :
        LET good == ok /\ Exists(overlay) IN
        /\ Native(t, good)
        /\ IF good
           THEN /\ overlay' = [overlay EXCEPT !.on_top = TRUE]
                /\ IF ClickThrough(t)
                   THEN Goto(t, "cw_click") /\ UNCHANGED <<ret, settingsLock, visLock>>
                   ELSE CreateOk(t)
           ELSE /\ overlay' = overlay
                /\ CreateErr(t)
    /\ UNCHANGED <<mainWin, overlay_visible, settings, cmd, closeNotif, running, pre, hist, emitted, file, saves>>

\* if settings.click_through { set_ignore_cursor_events(app, true)?; }
CwClick(t) ==
    /\ running
    /\ pc[t] = "cw_click"
    /\ \E ok \in BOOLEAN :
        LET good == ok \/ ~Exists(overlay) IN
        /\ Native(t, good)
        /\ IF good
           THEN /\ overlay' = IF Exists(overlay)
                              THEN [overlay EXCEPT !.ignore_cursor = TRUE]
                              ELSE overlay
                /\ CreateOk(t)
           ELSE /\ overlay' = overlay
                /\ CreateErr(t)
    /\ UNCHANGED <<mainWin, overlay_visible, settings, cmd, closeNotif, running, pre, hist, emitted, file, saves>>

----------------------------------------------------------------------------
(* commands.rs: show_overlay (also the second half of toggle_overlay) *)

\* mutant: show_overlay drops the settings guard before it creates the window
M_SoLockDropped(t) ==
    /\ running
    /\ pc[t] = "so_lock"
    /\ settingsLock = Free
    /\ Goto(t, "so_check")
    /\ UNCHANGED <<overlay, mainWin, overlay_visible, settings, settingsLock, visLock,
                   cmd, ret, loc, closeNotif, running, pre, hist, emitted, file, saves>>

\* let settings = state.settings.lock()?;  the guard lives to the end of the function
SoLock(t) ==
    /\ running
    /\ pc[t] = "so_lock"
    /\ settingsLock = Free
    /\ settingsLock' = t
    /\ Goto(t, "so_check")
    /\ UNCHANGED <<overlay, mainWin, overlay_visible, settings, visLock, cmd, ret,
                   loc, closeNotif, running, pre, hist, emitted, file, saves>>

\* if app.get_webview_window("overlay").is_none() { create } else { show }
SoCheck(t) ==
    /\ running
    /\ pc[t] = "so_check"
    /\ Goto(t, IF ~Exists(overlay) THEN "cw_check" ELSE "so_show")
    /\ UNCHANGED <<overlay, mainWin, overlay_visible, settings, settingsLock, visLock,
                   cmd, ret, loc, closeNotif, running, pre, hist, emitted, file, saves>>

\* window_manager::show_overlay_window(&app)?;
SoShow(t) ==
    /\ running
    /\ pc[t] = "so_show"
    /\ \E ok \in BOOLEAN :
        LET good == ok \/ ~Exists(overlay) IN
        /\ Native(t, good)
        /\ IF good
           THEN /\ overlay' = IF Exists(overlay)
                              THEN [overlay EXCEPT !.shown = TRUE]
                              ELSE overlay
                /\ Goto(t, "so_vlock")
                /\ UNCHANGED <<ret, settingsLock, visLock>>
           ELSE /\ overlay' = overlay
                /\ ReturnErr(t)
    /\ UNCHANGED <<mainWin, overlay_visible, settings, cmd, closeNotif, running, pre, hist, emitted, file, saves>>

\* let mut overlay_visible = state.overlay_visible.lock()?;
SoVLock(t) ==
    /\ running
    /\ pc[t] = "so_vlock"
    /\ visLock = Free
    /\ visLock' = t
    /\ Goto(t, "so_set")
    /\ UNCHANGED <<overlay, mainWin, overlay_visible, settings, settingsLock, cmd, ret,
                   loc, closeNotif, running, pre, hist, emitted, file, saves>>

\* *overlay_visible = true; Ok(())   (both guards are dropped)
SoSet(t) ==
    /\ running
    /\ pc[t] = "so_set"
    /\ overlay_visible' = TRUE
    /\ visLock' = Free
    /\ settingsLock' = IF settingsLock = t THEN Free ELSE settingsLock
    /\ Finish(t, IF cmd[t] = "toggle_overlay" THEN "true" ELSE "ok")
    /\ UNCHANGED <<overlay, mainWin, settings, cmd, loc, closeNotif, running, pre, hist, emitted, file, saves>>

----------------------------------------------------------------------------
(* commands.rs: hide_overlay (also the first half of toggle_overlay) *)

\* mutant: hide_overlay discards the result of the native hide
M_HoHideUnchecked(t) ==
    /\ running
    /\ pc[t] = "ho_hide"
    /\ \E ok \in BOOLEAN :
        LET good == ok \/ ~Exists(overlay) IN
        /\ Native(t, good)
        /\ overlay' = IF good /\ Exists(overlay)
                      THEN [overlay EXCEPT !.shown = FALSE]
                      ELSE overlay
    /\ Goto(t, "ho_vlock")
    /\ UNCHANGED <<ret, settingsLock, visLock>>
    /\ UNCHANGED <<mainWin, overlay_visible, settings, cmd, closeNotif, running, pre, hist, emitted, file, saves>>

\* window_manager::hide_overlay_window(&app)?;
HoHide(t) ==
    /\ running
    /\ pc[t] = "ho_hide"
    /\ \E ok \in BOOLEAN :
        LET good == ok \/ ~Exists(overlay) IN
        /\ Native(t, good)
        /\ IF good
           THEN /\ overlay' = IF Exists(overlay)
                              THEN [overlay EXCEPT !.shown = FALSE]
                              ELSE overlay
                /\ Goto(t, "ho_vlock")
                /\ UNCHANGED <<ret, settingsLock, visLock>>
           ELSE /\ overlay' = overlay
                /\ ReturnErr(t)
    /\ UNCHANGED <<mainWin, overlay_visible, settings, cmd, closeNotif, running, pre, hist, emitted, file, saves>>

HoVLock(t) ==
    /\ running
    /\ pc[t] = "ho_vlock"
    /\ visLock = Free
    /\ visLock' = t
    /\ Goto(t, "ho_set")
    /\ UNCHANGED <<overlay, mainWin, overlay_visible, settings, settingsLock, cmd, ret,
                   loc, closeNotif, running, pre, hist, emitted, file, saves>>

\* *overlay_visible = false; Ok(())
HoSet(t) ==
    /\ running
    /\ pc[t] = "ho_set"
    /\ overlay_visible' = FALSE
    /\ visLock' = Free
    /\ Finish(t, IF cmd[t] = "toggle_overlay" THEN "false" ELSE "ok")
    /\ UNCHANGED <<overlay, mainWin, settings, settingsLock, cmd, loc, closeNotif,
                   running, pre, hist, emitted, file, saves>>

----------------------------------------------------------------------------
(* commands.rs: close_overlay *)

\* window_manager::close_overlay_window(&app)?;
CoClose(t) ==
    /\ running
    /\ pc[t] = "co_close"
    /\ \E ok \in BOOLEAN :
        LET good == ok \/ ~Exists(overlay) IN
        /\ Native(t, good)
        /\ IF good
           THEN /\ overlay' = Closed(overlay)
                /\ closeNotif' = (closeNotif \/ Exists(overlay))
                /\ Goto(t, "co_vlock")
                /\ UNCHANGED <<ret, settingsLock, visLock>>
           ELSE /\ UNCHANGED <<overlay, closeNotif>>
                /\ ReturnErr(t)
    /\ UNCHANGED <<mainWin, overlay_visible, settings, cmd, running, pre, hist, emitted, file, saves>>

CoVLock(t) ==
    /\ running
    /\ pc[t] = "co_vlock"
    /\ visLock = Free
    /\ visLock' = t
    /\ Goto(t, "co_set")
    /\ UNCHANGED <<overlay, mainWin, overlay_visible, settings, settingsLock, cmd, ret,
                   loc, closeNotif, running, pre, hist, emitted, file, saves>>

\* *overlay_visible = false; Ok(())
CoSet(t) ==
    /\ running
    /\ pc[t] = "co_set"
    /\ overlay_visible' = FALSE
    /\ visLock' = Free
    /\ Finish(t, "ok")
    /\ UNCHANGED <<overlay, mainWin, settings, settingsLock, cmd, loc, closeNotif,
                   running, pre, hist, emitted, file, saves>>

----------------------------------------------------------------------------
(* commands.rs: toggle_overlay, get_overlay_visible *)

\* let overlay_visible = state.overlay_visible.lock()?;
ToLock(t) ==
    /\ running
    /\ pc[t] = "to_lock"
    /\ visLock = Free
    /\ visLock' = t
    /\ Goto(t, "to_read")
    /\ UNCHANGED <<overlay, mainWin, overlay_visible, settings, settingsLock, cmd, ret,
                   loc, closeNotif, running, pre, hist, emitted, file, saves>>

\* mutant: toggle_overlay with its branches swapped
M_ToBranchSwapped(is_visible) == IF is_visible THEN "so_lock" ELSE "ho_hide"

\* the branch toggle_overlay takes on the value it read
ToBranch(is_visible) == IF is_visible THEN "ho_hide" ELSE "so_lock"

\* mutant: toggle_overlay keeps the guard of the flag while it calls
\* hide_overlay or show_overlay
M_ToReadKeepsGuard(t) ==
    /\ running
    /\ pc[t] = "to_read"
    /\ loc' = [loc EXCEPT ![t].is_visible = overlay_visible]
    /\ Goto(t, ToBranch(overlay_visible))
    /\ UNCHANGED <<overlay, mainWin, overlay_visible, settings, settingsLock, visLock, cmd,
                   ret, closeNotif, running, pre, hist, emitted, file, saves>>

\* let is_visible = { ...; *overlay_visible };  if is_visible { hide } else { show }
ToRead(t) ==
    /\ running
    /\ pc[t] = "to_read"
    /\ loc' = [loc EXCEPT ![t].is_visible = overlay_visible]
    /\ visLock' = Free
    /\ Goto(t, ToBranch(overlay_visible))
    /\ UNCHANGED <<overlay, mainWin, overlay_visible, settings, settingsLock, cmd, ret,
                   closeNotif, running, pre, hist, emitted, file, saves>>

GvLock(t) ==
    /\ running
    /\ pc[t] = "gv_lock"
    /\ visLock = Free
    /\ visLock' = t
    /\ Goto(t, "gv_read")
    /\ UNCHANGED <<overlay, mainWin, overlay_visible, settings, settingsLock, cmd, ret,
                   loc, closeNotif, running, pre, hist, emitted, file, saves>>

\* Ok(*overlay_visible)
GvRead(t) ==
    /\ running
    /\ pc[t] = "gv_read"
    /\ visLock' = Free
    /\ Finish(t, IF overlay_visible THEN "true" ELSE "false")
    /\ UNCHANGED <<overlay, mainWin, overlay_visible, settings, settingsLock, cmd, loc,
                   closeNotif, running, pre, hist, emitted, file, saves>>

----------------------------------------------------------------------------
(* lib.rs: show_main_window, run by the tray entry "show_main", by a left   *)
(* click on the tray icon and by CloseRequested of the overlay              *)

\* if let Some(overlay) = app.get_webview_window("overlay") { let _ = overlay.hide(); }
SmHide(t) ==
    /\ running
    /\ pc[t] = "sm_hide"
    /\ \E ok \in BOOLEAN :
        LET good == ok \/ ~Exists(overlay) IN
        /\ Native(t, good)
        /\ overlay' = IF good /\ Exists(overlay)
                      THEN [overlay EXCEPT !.shown = FALSE]
                      ELSE overlay
    /\ Goto(t, "sm_vlock")
    /\ UNCHANGED <<mainWin, overlay_visible, settings, settingsLock, visLock, cmd, ret,
                   closeNotif, running, pre, hist, emitted, file, saves>>

\* if let Ok(mut visible) = state.overlay_visible.lock()
SmVLock(t) ==
    /\ running
    /\ pc[t] = "sm_vlock"
    /\ visLock = Free
    /\ visLock' = t
    /\ Goto(t, "sm_set")
    /\ UNCHANGED <<overlay, mainWin, overlay_visible, settings, settingsLock, cmd, ret,
                   loc, closeNotif, running, pre, hist, emitted, file, saves>>

\* *visible = false;
SmSet(t) ==
    /\ running
    /\ pc[t] = "sm_set"
    /\ overlay_visible' = FALSE
    /\ visLock' = Free
    /\ Goto(t, "sm_show")
    /\ UNCHANGED <<overlay, mainWin, settings, settingsLock, cmd, ret, loc, closeNotif,
                   running, pre, hist, emitted, file, saves>>

\* mutant: show_main_window without the show of the main window
M_SmShowSkipped(t) ==
    /\ running
    /\ pc[t] = "sm_show"
    /\ IF cmd[t] = "overlay_close_requested"
       THEN Goto(t, "oc_destroy") /\ UNCHANGED ret
       ELSE Finish(t, "ok")
    /\ UNCHANGED <<overlay, mainWin, overlay_visible, settings, settingsLock, visLock,
                   cmd, loc, closeNotif, running, pre, hist, emitted, file, saves>>

\* if let Some(main_window) = ... { let _ = main_window.show(); let _ = main_window.set_focus(); }
SmShow(t) ==
    /\ running
    /\ pc[t] = "sm_show"
    /\ \E ok \in BOOLEAN :
        LET good == ok \/ mainWin = "closed" IN
        /\ Native(t, good)
        /\ mainWin' = IF good /\ mainWin # "closed" THEN "shown" ELSE mainWin
    /\ IF cmd[t] = "overlay_close_requested"
       THEN Goto(t, "oc_destroy") /\ UNCHANGED ret
       ELSE Finish(t, "ok")
    /\ UNCHANGED <<overlay, overlay_visible, settings, settingsLock, visLock, cmd,
                   closeNotif, running, pre, hist, emitted, file, saves>>

\* the CloseRequested handler of the overlay does not prevent the close: the
\* window the user asked to close is destroyed once the handler has returned
OcDestroy(t) ==
    /\ running
    /\ pc[t] = "oc_destroy"
    /\ overlay' = Closed(overlay)
    /\ Finish(t, "ok")
    /\ UNCHANGED <<mainWin, overlay_visible, settings, settingsLock, visLock, cmd, loc,
                   closeNotif, running, pre, hist, emitted, file, saves>>

----------------------------------------------------------------------------
(* lib.rs: on_window_event, CloseRequested of the main window; Destroyed *)

\* if let Some(overlay) = app.get_webview_window("overlay") { let _ = overlay.close(); }
McClose(t) ==
    /\ running
    /\ pc[t] = "mc_close"
    /\ \E ok \in BOOLEAN :
        LET good == ok \/ ~Exists(overlay) IN
        /\ Native(t, good)
        /\ overlay' = IF good THEN Closed(overlay) ELSE overlay
        /\ closeNotif' = (closeNotif \/ (good /\ Exists(overlay)))
    /\ Goto(t, "mc_vlock")
    /\ UNCHANGED <<mainWin, overlay_visible, settings, settingsLock, visLock, cmd, ret,
                   running, pre, hist, emitted, file, saves>>

McVLock(t) ==
    /\ running
    /\ pc[t] = "mc_vlock"
    /\ visLock = Free
    /\ visLock' = t
    /\ Goto(t, "mc_set")
    /\ UNCHANGED <<overlay, mainWin, overlay_visible, settings, settingsLock, cmd, ret,
                   loc, closeNotif, running, pre, hist, emitted, file, saves>>

\* *visible = false;  the handler returns and the main window is destroyed
McSet(t) ==
    /\ running
    /\ pc[t] = "mc_set"
    /\ overlay_visible' = FALSE
    /\ visLock' = Free
    /\ mainWin' = "closed"
    /\ Finish(t, "ok")
    /\ UNCHANGED <<overlay, settings, settingsLock, cmd, loc, closeNotif, running, pre, hist, emitted, file, saves>>

\* WindowEvent::Destroyed, label == "main": app.exit(0)
MainDestroyed ==
    /\ running
    /\ pc[Ev] = "idle"
    /\ mainWin = "closed"
    /\ Exit
    /\ UNCHANGED <<overlay_visible, settings, settingsLock, visLock,
                   pc, cmd, ret, loc, closeNotif, pre, hist, emitted, file, saves>>

----------------------------------------------------------------------------
(* lib.rs: spawn_show_overlay_window, the worker thread *)

\* let overlay_settings = match state.settings.lock() { Ok(s) => s.overlay.clone(), .. };
WkSettings(t) ==
    /\ running
    /\ pc[t] = "wk_settings"
    /\ settingsLock = Free
    /\ loc' = [loc EXCEPT ![t].click = settings.click_through]
    /\ Goto(t, "wk_hide_main")
    /\ UNCHANGED <<overlay, mainWin, overlay_visible, settings, settingsLock, visLock,
                   cmd, ret, closeNotif, running, pre, hist, emitted, file, saves>>

\* mutant: the worker without the hide of the main window
M_WkHideMainSkipped(t) ==
    /\ running
    /\ pc[t] = "wk_hide_main"
    /\ Goto(t, "wk_check")
    /\ UNCHANGED <<overlay, mainWin, overlay_visible, settings, settingsLock, visLock,
                   cmd, ret, loc, closeNotif, running, pre, hist, emitted, file, saves>>

\* if let Some(main_window) = ... { let _ = main_window.hide(); }
WkHideMain(t) ==
    /\ running
    /\ pc[t] = "wk_hide_main"
    /\ \E ok \in BOOLEAN :
        LET good == ok \/ mainWin = "closed" IN
        /\ Native(t, good)
        /\ mainWin' = IF good /\ mainWin # "closed" THEN "hidden" ELSE mainWin
    /\ Goto(t, "wk_check")
    /\ UNCHANGED <<overlay, overlay_visible, settings, settingsLock, visLock, cmd, ret,
                   closeNotif, running, pre, hist, emitted, file, saves>>

\* if app.get_webview_window("overlay").is_none() { create } else { show }
WkCheck(t) ==
    /\ running
    /\ pc[t] = "wk_check"
    /\ Goto(t, IF ~Exists(overlay) THEN "cw_check" ELSE "wk_show")
    /\ UNCHANGED <<overlay, mainWin, overlay_visible, settings, settingsLock, visLock,
                   cmd, ret, loc, closeNotif, running, pre, hist, emitted, file, saves>>

\* let _ = window_manager::show_overlay_window(&app);
WkShow(t) ==
    /\ running
    /\ pc[t] = "wk_show"
    /\ \E ok \in BOOLEAN :
        LET good == ok \/ ~Exists(overlay) IN
        /\ Native(t, good)
        /\ overlay' = IF good /\ Exists(overlay)
                      THEN [overlay EXCEPT !.shown = TRUE]
                      ELSE overlay
    /\ Goto(t, "wk_vlock")
    /\ UNCHANGED <<mainWin, overlay_visible, settings, settingsLock, visLock, cmd, ret,
                   closeNotif, running, pre, hist, emitted, file, saves>>

\* on Err of create: if let Some(main_window) = ... { let _ = main_window.show(); } return;
WkRecover(t) ==
    /\ running
    /\ pc[t] = "wk_recover"
    /\ \E ok \in BOOLEAN :
        LET good == ok \/ mainWin = "closed" IN
        /\ Native(t, good)
        /\ mainWin' = IF good /\ mainWin # "closed" THEN "shown" ELSE mainWin
    /\ Finish(t, "err")
    /\ UNCHANGED <<overlay, overlay_visible, settings, settingsLock, visLock, cmd,
                   closeNotif, running, pre, hist, emitted, file, saves>>

\* if let Ok(mut visible) = state.overlay_visible.lock()
WkVLock(t) ==
    /\ running
    /\ pc[t] = "wk_vlock"
    /\ visLock = Free
    /\ visLock' = t
    /\ Goto(t, "wk_set")
    /\ UNCHANGED <<overlay, mainWin, overlay_visible, settings, settingsLock, cmd, ret,
                   loc, closeNotif, running, pre, hist, emitted, file, saves>>

\* *visible = true;
WkSet(t) ==
    /\ running
    /\ pc[t] = "wk_set"
    /\ overlay_visible' = TRUE
    /\ visLock' = Free
    /\ Finish(t, "ok")
    /\ UNCHANGED <<overlay, mainWin, settings, settingsLock, cmd, loc, closeNotif,
                   running, pre, hist, emitted, file, saves>>

----------------------------------------------------------------------------
(* commands.rs: close_app *)

\* if let Some(overlay) = app.get_webview_window("overlay") { let _ = overlay.close(); }
CaClose(t) ==
    /\ running
    /\ pc[t] = "ca_close"
    /\ \E ok \in BOOLEAN :
        LET good == ok \/ ~Exists(overlay) IN
        /\ Native(t, good)
        /\ overlay' = IF good THEN Closed(overlay) ELSE overlay
        /\ closeNotif' = (closeNotif \/ (good /\ Exists(overlay)))
    /\ Goto(t, "ca_vlock")
    /\ UNCHANGED <<mainWin, overlay_visible, settings, settingsLock, visLock, cmd, ret,
                   running, pre, hist, emitted, file, saves>>

\* let mut overlay_visible = state.overlay_visible.lock().map_err(|e| e.to_string())?;
CaVLock(t) ==
    /\ running
    /\ pc[t] = "ca_vlock"
    /\ visLock = Free
    /\ visLock' = t
    /\ Goto(t, "ca_set")
    /\ UNCHANGED <<overlay, mainWin, overlay_visible, settings, settingsLock, cmd, ret,
                   loc, closeNotif, running, pre, hist, emitted, file, saves>>

\* *overlay_visible = false;  (the guard is dropped at the end of the block)
CaSet(t) ==
    /\ running
    /\ pc[t] = "ca_set"
    /\ overlay_visible' = FALSE
    /\ visLock' = Free
    /\ Goto(t, "ca_main")
    /\ UNCHANGED <<overlay, mainWin, settings, settingsLock, cmd, ret, loc, closeNotif,
                   running, pre, hist, emitted, file, saves>>

\* if let Some(main_window) = ... { main_window.close().map_err(|e| e.to_string())?; }
CaMain(t) ==
    /\ running
    /\ pc[t] = "ca_main"
    /\ \E ok \in BOOLEAN :
        LET good == ok \/ mainWin = "closed" IN
        /\ Native(t, good)
        /\ IF good
           THEN /\ mainWin' = "closed"
                /\ Goto(t, "ca_exit")
                /\ UNCHANGED <<ret, settingsLock, visLock>>
           ELSE /\ mainWin' = mainWin
                /\ ReturnErr(t)
    /\ UNCHANGED <<overlay, overlay_visible, settings, cmd, closeNotif, running, pre, hist, emitted, file, saves>>

\* app.exit(0); Ok(())
CaExit(t) ==
    /\ running
    /\ pc[t] = "ca_exit"
    /\ Exit
    /\ Finish(t, "ok")
    /\ UNCHANGED <<overlay_visible, settings, settingsLock, visLock, cmd, loc, closeNotif,
                   pre, hist, emitted, file, saves>>

----------------------------------------------------------------------------
(* lib.rs: on_menu_event "quit" *)

\* if let Some(overlay) = app.get_webview_window("overlay") { let _ = overlay.close(); }
QuClose(t) ==
    /\ running
    /\ pc[t] = "qu_close"
    /\ \E ok \in BOOLEAN :
        LET good == ok \/ ~Exists(overlay) IN
        /\ Native(t, good)
        /\ overlay' = IF good THEN Closed(overlay) ELSE overlay
        /\ closeNotif' = (closeNotif \/ (good /\ Exists(overlay)))
    /\ Goto(t, "qu_main")
    /\ UNCHANGED <<mainWin, overlay_visible, settings, settingsLock, visLock, cmd, ret,
                   running, pre, hist, emitted, file, saves>>

\* if let Some(main_window) = ... { let _ = main_window.close(); }
QuMain(t) ==
    /\ running
    /\ pc[t] = "qu_main"
    /\ \E ok \in BOOLEAN :
        LET good == ok \/ mainWin = "closed" IN
        /\ Native(t, good)
        /\ mainWin' = IF good THEN "closed" ELSE mainWin
    /\ Goto(t, "qu_exit")
    /\ UNCHANGED <<overlay, overlay_visible, settings, settingsLock, visLock, cmd, ret,
                   closeNotif, running, pre, hist, emitted, file, saves>>

\* app.exit(0);
QuExit(t) ==
    /\ running
    /\ pc[t] = "qu_exit"
    /\ Exit
    /\ Finish(t, "ok")
    /\ UNCHANGED <<overlay_visible, settings, settingsLock, visLock, cmd, loc, closeNotif,
                   pre, hist, emitted, file, saves>>

----------------------------------------------------------------------------
(* commands.rs: set_overlay_position, set_overlay_size, set_click_through    *)
(* (window_manager.rs: set_overlay_position, set_overlay_size,               *)
(* set_ignore_cursor_events)                                                 *)

SetterCommands == {"set_overlay_position", "set_overlay_size", "set_click_through"}

\* the values a setter may be called with
SetterArgs(c) ==
    CASE c = "set_overlay_position" -> Positions
      [] c = "set_overlay_size" -> Sizes
      [] c = "set_click_through" -> BOOLEAN

\* mutant: a setter that also shows the window
M_AppliedShows(ov, c, x) == [ov EXCEPT !.shown = TRUE]

\* window.set_position(..) / window.set_size(..) / window.set_ignore_cursor_events(..)
Applied(ov, c, x) ==
    CASE c = "set_overlay_position" -> [ov EXCEPT !.pos = x]
      [] c = "set_overlay_size" -> [ov EXCEPT !.size = x]
      [] c = "set_click_through" -> [ov EXCEPT !.ignore_cursor = x]

\* if let Some(window) = app.get_webview_window("overlay") { window.set_..(..)?; } Ok(())
\* (the argument is drawn here and kept in loc.arg)
SetApply(t) ==
    /\ running
    /\ pc[t] = "set_apply"
    /\ \E x \in SetterArgs(cmd[t]), ok \in BOOLEAN :
        LET good == ok \/ ~Exists(overlay) IN
        /\ loc' = [loc EXCEPT ![t].arg = x, ![t].failed = ~good]
        /\ IF good
           THEN /\ overlay' = IF Exists(overlay) THEN Applied(overlay, cmd[t], x) ELSE overlay
                /\ Finish(t, "ok")
                /\ UNCHANGED <<settingsLock, visLock>>
           ELSE /\ overlay' = overlay
                /\ ReturnErr(t)
    /\ UNCHANGED <<mainWin, overlay_visible, settings, cmd, closeNotif, running, pre, hist, emitted, file, saves>>

----------------------------------------------------------------------------
(* lib.rs: the global shortcut Ctrl+Shift+O *)

\* mutant: the shortcut handler flips the flag itself
M_HotkeyFlipsFlag ==
    /\ running
    /\ emitted < MaxEmit
    /\ emitted' = emitted + 1
    /\ overlay_visible' = ~overlay_visible
    /\ UNCHANGED <<overlay, mainWin, settings, settingsLock, visLock, pc, cmd,
                   ret, loc, closeNotif, running, pre, hist, file, saves>>

\* on_shortcut(shortcut, |..| { let _ = handle.emit("toggle-overlay", ()); })
Hotkey ==
    /\ running
    /\ emitted < MaxEmit
    /\ \E ok \in BOOLEAN : emitted' = IF ok THEN emitted + 1 ELSE emitted
    /\ UNCHANGED <<overlay, mainWin, overlay_visible, settings, settingsLock, visLock, pc, cmd,
                   ret, loc, closeNotif, running, pre, hist, file, saves>>

----------------------------------------------------------------------------
(* lib.rs: run() builds AppState from load_settings() *)

\* settings: Mutex::new(load_settings())
RunLoad(t) ==
    /\ running
    /\ pc[t] = "run_load"
    /\ \E readable \in BOOLEAN :
        /\ Native(t, readable \/ file.kind = "absent")
        /\ settings' = LoadSettings(file, readable)
    /\ Finish(t, "ok")
    /\ UNCHANGED <<overlay, mainWin, overlay_visible, settingsLock, visLock, cmd,
                   closeNotif, running, pre, hist, emitted, file, saves>>

----------------------------------------------------------------------------
(* commands.rs: save_settings, reset_settings, set_last_session_code;       *)
(* settings.rs: save_settings                                               *)

SettingsCommands == {"save_settings", "reset_settings", "set_last_session_code"}

\* mutant: the settings commands without the settings lock
M_StLockSkipped(t) ==
    /\ running
    /\ pc[t] = "st_lock"
    /\ Goto(t, "st_assign")
    /\ UNCHANGED <<overlay, mainWin, overlay_visible, settings, settingsLock, visLock,
                   cmd, ret, loc, closeNotif, running, pre, hist, emitted, file, saves>>

\* let mut settings = state.settings.lock().map_err(|e| e.to_string())?;
StLock(t) ==
    /\ running
    /\ pc[t] = "st_lock"
    /\ settingsLock = Free
    /\ settingsLock' = t
    /\ Goto(t, "st_assign")
    /\ UNCHANGED <<overlay, mainWin, overlay_visible, settings, visLock, cmd, ret,
                   loc, closeNotif, running, pre, hist, emitted, file, saves>>

\* the snapshot the command writes into AppState.settings
\*   save_settings:          *settings = new_settings.clone();
\*   reset_settings:         *settings = AppSettings::default();
\*   set_last_session_code:  settings.last_session_code = code;
NewSnapshots(c, inputs) ==
    CASE c = "save_settings" -> inputs
      [] c = "reset_settings" -> {DefaultSettings}
      [] c = "set_last_session_code" ->
            {[settings EXCEPT !.last_session_code = code] : code \in {<<>>, <<"ABC123">>}}

\* the in-memory mutation (the argument is drawn here, from the values
\* inputs of new_settings, and kept in loc.arg)
StAssign(t, inputs) ==
    /\ running
    /\ pc[t] = "st_assign"
    /\ \E new \in NewSnapshots(cmd[t], inputs) :
        /\ settings' = new
        /\ loc' = [loc EXCEPT ![t].arg = new]
    /\ Goto(t, "sv_ser")
    /\ UNCHANGED <<overlay, mainWin, overlay_visible, settingsLock, visLock, cmd, ret,
                   closeNotif, running, pre, hist, emitted, file, saves>>

\* let content = serde_json::to_string_pretty(settings)...;  save_settings
\* passes &new_settings, the other two pass the locked AppState.settings
SvSer(t) ==
    /\ running
    /\ pc[t] = "sv_ser"
    /\ loc' = [loc EXCEPT ![t].content =
                  Serialize(IF cmd[t] = "save_settings" THEN loc[t].arg ELSE settings)]
    /\ Goto(t, "fs_create")
    /\ UNCHANGED <<overlay, mainWin, overlay_visible, settings, settingsLock, visLock, cmd,
                   ret, closeNotif, running, pre, hist, emitted, file, saves>>

\* fs::write(path, content), first half: the file is created or cut to length 0
FsCreate(t) ==
    /\ running
    /\ pc[t] = "fs_create"
    /\ \E ok \in BOOLEAN :
        /\ Native(t, ok)
        /\ IF ok
           THEN /\ file' = MalformedFile
                /\ Goto(t, "fs_write")
                /\ UNCHANGED <<ret, settingsLock, visLock, saves>>
           ELSE /\ file' = file
                /\ saves' = "failed"
                /\ ReturnErr(t)
    /\ UNCHANGED <<overlay, mainWin, overlay_visible, settings, cmd, closeNotif, running,
                   pre, hist, emitted>>

\* fs::write(path, content), second half: the content is written; on an
\* error the file stays cut short.  Ok: the guard is dropped, the command returns
FsWrite(t) ==
    /\ running
    /\ pc[t] = "fs_write"
    /\ \E ok \in BOOLEAN :
        /\ Native(t, ok)
        /\ IF ok
           THEN /\ file' = JsonFile(loc[t].content)
                /\ saves' = IF saves = "failed" THEN "failed" ELSE "ok"
                /\ Finish(t, "ok")
                /\ settingsLock' = IF settingsLock = t THEN Free ELSE settingsLock
                /\ UNCHANGED visLock
           ELSE /\ file' = MalformedFile
                /\ saves' = "failed"
                /\ ReturnErr(t)
    /\ UNCHANGED <<overlay, mainWin, overlay_visible, settings, cmd, closeNotif, running,
                   pre, hist, emitted>>

\* get_settings, get_last_session_code
GetterCommands == {"get_settings", "get_last_session_code"}

\* let settings = state.settings.lock().map_err(|e| e.to_string())?;
GsLock(t) ==
    /\ running
    /\ pc[t] = "gs_lock"
    /\ settingsLock = Free
    /\ settingsLock' = t
    /\ Goto(t, "gs_read")
    /\ UNCHANGED <<overlay, mainWin, overlay_visible, settings, visLock, cmd, ret,
                   loc, closeNotif, running, pre, hist, emitted, file, saves>>

\* Ok(settings.clone()) / Ok(settings.last_session_code.clone())
GsRead(t) ==
    /\ running
    /\ pc[t] = "gs_read"
    /\ loc' = [loc EXCEPT ![t].arg = settings]
    /\ settingsLock' = Free
    /\ Finish(t, "ok")
    /\ UNCHANGED <<overlay, mainWin, overlay_visible, settings, visLock, cmd,
                   closeNotif, running, pre, hist, emitted, file, saves>>

\* the UI calls one of the getters
GetterCall(t, c, snap) ==
    /\ Begin(t, c, "gs_lock", snap)
    /\ UNCHANGED closeNotif

\* the values of new_settings in the specification of the two locks
LockInputs == {DefaultSettings, [DefaultSettings EXCEPT !.click_through = TRUE]}

StStep(t, inputs) ==
    \/ StLock(t) \/ StAssign(t, inputs) \/ SvSer(t) \/ FsCreate(t) \/ FsWrite(t)

\* the values of new_settings in the specification of overlapping saves
SaveInputs ==
    {st \in AllSettings : st.opacity = DefaultSettings.opacity
                          /\ st.line_height = DefaultSettings.line_height}

\* the UI calls one of the settings commands
SettingsCall(t, c, snap) ==
    /\ Begin(t, c, "st_lock", snap)
    /\ UNCHANGED closeNotif

----------------------------------------------------------------------------
(* Triggers *)

\* invoke_handler: the overlay commands the UI can call, with their first step
UICommands == {"show_overlay", "hide_overlay", "close_overlay", "toggle_overlay",
               "get_overlay_visible"}

Entry(c) ==
    CASE c = "show_overlay" -> "so_lock"
      [] c = "hide_overlay" -> "ho_hide"
      [] c = "close_overlay" -> "co_close"
      [] c = "toggle_overlay" -> "to_lock"
      [] c = "get_overlay_visible" -> "gv_lock"

\* the UI calls a command
UICall(t, c, snap) ==
    /\ Begin(t, c, Entry(c), snap)
    /\ UNCHANGED closeNotif

\* on_menu_event "show_main"
TrayShowMain(snap) ==
    /\ Begin(Ev, "tray_show_main", "sm_hide", snap)
    /\ UNCHANGED closeNotif

\* on_tray_icon_event: Click { button: Left, button_state: Up }
TrayClick(snap) ==
    /\ Begin(Ev, "tray_click", "sm_hide", snap)
    /\ UNCHANGED closeNotif

\* on_menu_event "show_overlay": spawn_show_overlay_window(app.clone())
TrayShowOverlay(snap) ==
    /\ pc[Ev] = "idle"
    /\ Begin(Wk, "tray_show_overlay", "wk_settings", snap)
    /\ UNCHANGED closeNotif

\* CloseRequested, label == "overlay": the user closes the overlay window
OverlayCloseRequested(snap) ==
    /\ Exists(overlay)
    /\ Begin(Ev, "overlay_close_requested", "sm_hide", snap)
    /\ UNCHANGED closeNotif

\* CloseRequested, label == "overlay": the notification queued by a close() call
OverlayCloseNotified(snap) ==
    /\ closeNotif
    /\ closeNotif' = FALSE
    /\ Begin(Ev, "overlay_close_notified", "sm_hide", snap)

\* CloseRequested, label == "main"
MainCloseRequested(snap) ==
    /\ mainWin # "closed"
    /\ Begin(Ev, "main_close_requested", "mc_close", snap)
    /\ UNCHANGED closeNotif

\* the UI calls close_app
CloseApp(t, snap) ==
    /\ Begin(t, "close_app", "ca_close", snap)
    /\ UNCHANGED closeNotif

\* on_menu_event "quit"
TrayQuit(snap) ==
    /\ Begin(Ev, "tray_quit", "qu_close", snap)
    /\ UNCHANGED closeNotif

\* the UI calls one of the setters
SetterCall(t, c, snap) ==
    /\ Begin(t, c, "set_apply", snap)
    /\ UNCHANGED closeNotif

CaStep(t) ==
    \/ CaClose(t) \/ CaVLock(t) \/ CaSet(t) \/ CaMain(t) \/ CaExit(t)

UIStep(t) ==
    \/ CwCheck(t) \/ CwBuild(t) \/ CwTop(t) \/ CwClick(t)
    \/ SoLock(t) \/ SoCheck(t) \/ SoShow(t) \/ SoVLock(t) \/ SoSet(t)
    \/ HoHide(t) \/ HoVLock(t) \/ HoSet(t)
    \/ CoClose(t) \/ CoVLock(t) \/ CoSet(t)
    \/ ToLock(t) \/ ToRead(t)
    \/ GvLock(t) \/ GvRead(t)

EvStep ==
    \/ SmHide(Ev) \/ SmVLock(Ev) \/ SmSet(Ev) \/ SmShow(Ev) \/ OcDestroy(Ev)
    \/ McClose(Ev) \/ McVLock(Ev) \/ McSet(Ev)
    \/ QuClose(Ev) \/ QuMain(Ev) \/ QuExit(Ev)

WkStep ==
    \/ WkSettings(Wk) \/ WkHideMain(Wk) \/ WkCheck(Wk) \/ WkShow(Wk) \/ WkRecover(Wk)
    \/ WkVLock(Wk) \/ WkSet(Wk)
    \/ CwCheck(Wk) \/ CwBuild(Wk) \/ CwTop(Wk) \/ CwClick(Wk)

EvTrigger(snap) ==
    \/ TrayShowMain(snap) \/ TrayClick(snap) \/ TrayShowOverlay(snap)
    \/ OverlayCloseRequested(snap) \/ OverlayCloseNotified(snap)
    \/ MainCloseRequested(snap) \/ TrayQuit(snap)

----------------------------------------------------------------------------
(* Specifications *)

\* every trigger that acts on the windows or the flag, interleaved step by step
Next ==
    \/ Room /\ \E t \in UIThreads, c \in UICommands : UICall(t, c, FALSE)
    \/ Room /\ \E t \in UIThreads : CloseApp(t, FALSE)
    \/ Room /\ EvTrigger(FALSE)
    \/ \E t \in UIThreads : UIStep(t) \/ CaStep(t)
    \/ EvStep
    \/ WkStep
    \/ MainDestroyed
    \/ \E t \in Threads : Return(t)

Spec == Init /\ [][Next]_vars

\* every trigger runs to completion before the next one starts
NextSeq ==
    \/ AllIdle /\ \E t \in UIThreads, c \in UICommands : UICall(t, c, TRUE)
    \/ AllIdle /\ \E t \in UIThreads : CloseApp(t, TRUE)
    \/ AllIdle /\ EvTrigger(TRUE)
    \/ \E t \in UIThreads : UIStep(t) \/ CaStep(t)
    \/ EvStep
    \/ WkStep
    \/ AllIdle /\ MainDestroyed
    \/ \E t \in Threads : Return(t)

SpecSeq == Init /\ [][NextSeq]_vars

\* the UI commands alone, each run to completion before the next one starts
NextUI ==
    \/ AllIdle /\ \E t \in UIThreads, c \in UICommands : UICall(t, c, TRUE)
    \/ \E t \in UIThreads : UIStep(t)
    \/ \E t \in UIThreads : Return(t)

SpecUI == Init /\ [][NextUI]_vars

\* the UI commands, each run to completion, and presses of the global
\* shortcut at any moment
NextHotkey ==
    \/ NextUI
    \/ Hotkey

SpecHotkey == Init /\ [][NextHotkey]_vars

\* the overlay commands and the setters, each run to completion
NextSetters ==
    \/ NextUI
    \/ AllIdle /\ \E t \in UIThreads, c \in SetterCommands : SetterCall(t, c, TRUE)
    \/ \E t \in UIThreads : SetApply(t)

SpecSetters == Init /\ [][NextSetters]_vars

\* the start of the process on any settings file, then the settings
\* commands, each run to completion
NextLoad ==
    \/ RunLoad(Ev)
    \/ AllIdle /\ \E t \in UIThreads, c \in SettingsCommands : SettingsCall(t, c, TRUE)
    \/ \E t \in UIThreads : StStep(t, AllSettings)
    \/ \E t \in UIThreads \cup {Ev} : Return(t)

SpecLoad == InitLoad /\ [][NextLoad]_vars

\* the settings commands, interleaved step by step
NextSaves ==
    \/ Room /\ \E t \in UIThreads, c \in SettingsCommands : SettingsCall(t, c, FALSE)
    \/ \E t \in UIThreads : StStep(t, SaveInputs)
    \/ \E t \in UIThreads : Return(t)

SpecSaves == Init /\ [][NextSaves]_vars

\* every trigger, those that take a lock among them, started from the state
\* run() leaves or from the state an earlier trigger left, and interleaved step
\* by step with the triggers still in flight
NextLocks ==
    \/ Room /\ \E t \in UIThreads, c \in UICommands : UICall(t, c, FALSE)
    \/ Room /\ \E t \in UIThreads : CloseApp(t, FALSE)
    \/ Room /\ \E t \in UIThreads, c \in SettingsCommands : SettingsCall(t, c, FALSE)
    \/ Room /\ \E t \in UIThreads, c \in GetterCommands : GetterCall(t, c, FALSE)
    \/ Room /\ EvTrigger(FALSE)
    \/ \E t \in UIThreads : UIStep(t) \/ CaStep(t) \/ StStep(t, LockInputs) \/ GsLock(t) \/ GsRead(t)
    \/ EvStep
    \/ WkStep
    \/ MainDestroyed

SpecLocks == Init /\ [][NextLocks]_vars

\* the UI commands alone; toggle_overlay calls may overlap each other, every
\* other command runs alone, and results are taken once all calls have returned
NextRace ==
    \/ /\ \A u \in Threads : pc[u] # "done" /\ cmd[u] \in {"none", "toggle_overlay"}
       /\ \E t \in UIThreads : UICall(t, "toggle_overlay", FALSE)
    \/ /\ AllIdle
       /\ \E t \in UIThreads, c \in UICommands \ {"toggle_overlay"} : UICall(t, c, FALSE)
    \/ \E t \in UIThreads : UIStep(t)
    \/ Quiescent /\ \E t \in UIThreads : Return(t)

SpecRace == Init /\ [][NextRace]_vars

\* the callers of create_overlay_window: the UI commands and the tray worker,
\* interleaved step by step
NextCreate ==
    \/ Room /\ \E t \in UIThreads, c \in UICommands : UICall(t, c, FALSE)
    \/ Room /\ TrayShowOverlay(FALSE)
    \/ \E t \in UIThreads : UIStep(t)
    \/ WkStep
    \/ \E t \in Threads : Return(t)

SpecCreate == Init /\ [][NextCreate]_vars

----------------------------------------------------------------------------
(* Properties *)

Done(t, c) == pc[t] = "done" /\ cmd[t] = c

\* C1 (SpecUI): after any sequence of show_overlay, hide_overlay, close_overlay
\* and toggle_overlay calls, each run to completion, get_overlay_visible
\* returns true iff the overlay window exists and is shown.
C1_GetVisibleIffShown ==
    \A t \in UIThreads :
        Done(t, "get_overlay_visible") => (ret[t] = "true" <=> Shown(overlay))

\* C2 (Spec): whenever no trigger is in the middle of executing,
\* overlay_visible = true implies that the overlay window exists and is shown.
C2_FlagTrueImpliesShown ==
    Quiescent => (overlay_visible => Shown(overlay))

\* C3 (Spec): whenever no trigger is in the middle of executing,
\* overlay_visible = false implies that the overlay window is not on screen
\* (hidden, closed or never created), also after a failed native call.
C3_FlagFalseImpliesNotShown ==
    Quiescent => (~overlay_visible => ~Shown(overlay))

\* C4 (Spec): a call of create_overlay_window that finds the overlay window
\* already created returns Ok, leaves the window as it is and leaves exactly
\* one overlay window.
C4_CreateIdempotent ==
    [][\A t \in Threads :
          (pc[t] = "cw_check" /\ Exists(overlay) /\ pc'[t] # "cw_check")
          => /\ overlay' = overlay
             /\ overlay'.count = 1
             /\ pc'[t] \in {"so_vlock", "wk_vlock"}
             /\ ret'[t] # "err"]_vars

C4_Witness ==
    \E t \in Threads : loc[t].skipped /\ overlay.count = 1 /\ pc[t] \in {"so_vlock", "wk_vlock"}

\* C5 (SpecSeq): toggle_overlay reads the flag; when it returns false the flag
\* was true, the overlay is not shown and the flag is false; when it returns
\* true the flag was false, the overlay is shown (created only if it did not
\* exist) and the flag is true; it returns a value unless a native call
\* failed.  From the initial state the first toggle_overlay returns true and
\* leaves the overlay shown with the flag true, and the one right after it
\* returns false and leaves the overlay hidden with the flag false.
C5_Toggle ==
    \A t \in UIThreads :
        Done(t, "toggle_overlay") =>
            /\ loc[t].is_visible = pre.flag
            /\ ret[t] \in {"true", "false", "err"}
            /\ ret[t] = "err" => loc[t].failed
            /\ ret[t] = "false" =>
                  /\ pre.flag /\ ~Shown(overlay) /\ ~overlay_visible
                  /\ overlay.count = pre.overlay.count
            /\ ret[t] = "true" =>
                  /\ ~pre.flag /\ Shown(overlay) /\ overlay_visible
                  /\ overlay.count = 1
                  /\ Exists(pre.overlay) => overlay.count = pre.overlay.count
            /\ (hist = <<>> /\ ~loc[t].failed) =>
                  ret[t] = "true" /\ ~Exists(pre.overlay)
            /\ (hist = <<"true">> /\ ~loc[t].failed) =>
                  ret[t] = "false" /\ Exists(overlay) /\ ~overlay.shown

C5_Witness ==
    \E t \in UIThreads :
        /\ Done(t, "toggle_overlay")
        /\ hist = <<"true">>
        /\ ret[t] = "false"
        /\ Exists(overlay) /\ ~overlay.shown /\ ~overlay_visible

\* C6 (SpecRace): when two toggle_overlay calls overlap, both read the same
\* flag value and no native call fails, both return a value, at most one
\* overlay window exists and the flag is true iff the overlay is shown.
C6_Case(t, u) ==
    /\ t # u
    /\ Done(t, "toggle_overlay") /\ Done(u, "toggle_overlay")
    /\ loc[t].is_visible = loc[u].is_visible
    /\ ~loc[t].failed /\ ~loc[u].failed
    /\ \A v \in Threads \ {t, u} : pc[v] = "idle"

C6_DoubleToggleHarmless ==
    \A t \in UIThreads, u \in UIThreads :
        C6_Case(t, u) =>
            /\ ret[t] # "err" /\ ret[u] # "err"
            /\ overlay.count <= 1
            /\ overlay_visible <=> Shown(overlay)

C6_Witness ==
    \E t \in UIThreads, u \in UIThreads :
        /\ C6_Case(t, u)
        /\ ~loc[t].is_visible
        /\ ret[t] = "true" /\ ret[u] = "true"
        /\ overlay_visible /\ Shown(overlay)

\* C7 (SpecSeq): once the close notification of the main window has been
\* handled with the overlay existing and visible, the overlay window is
\* closed and the flag is false.
C7_MainCloseCascades ==
    (Done(Ev, "main_close_requested") /\ Shown(pre.overlay))
        => (~Exists(overlay) /\ ~overlay_visible)

\* C8 (SpecSeq), as stated: the close notification of the overlay leaves the
\* visibility of the main window as it was and sets the flag to false.
C8_OverlayCloseLeavesMain ==
    \A c \in {"overlay_close_requested", "overlay_close_notified"} :
        Done(Ev, c) => (mainWin = pre.mainWin /\ ~overlay_visible)

\* C8 (SpecSeq), amended: the close notification of the overlay sets the flag
\* to false and re-shows the main window: a main window that exists is
\* visible afterwards unless a native call failed, and then its visibility
\* is visible or as it was.
C8_OverlayCloseShowsMain ==
    \A c \in {"overlay_close_requested", "overlay_close_notified"} :
        Done(Ev, c) =>
            /\ ~overlay_visible
            /\ mainWin \in {"shown", pre.mainWin}
            /\ (~loc[Ev].failed /\ pre.mainWin # "closed") => mainWin = "shown"

C8_Witness ==
    /\ Done(Ev, "overlay_close_requested")
    /\ pre.mainWin = "hidden"
    /\ mainWin = "shown"
    /\ ~overlay_visible

\* C9 (SpecSeq): the tray entry "show_main" and a left click on the tray icon
\* end, from any prior state in which the main window exists, with the main
\* window visible, the overlay not shown and the flag false.
C9_ShowMainEndState ==
    \A c \in {"tray_show_main", "tray_click"} :
        (Done(Ev, c) /\ pre.mainWin # "closed")
            => (mainWin = "shown" /\ ~Shown(overlay) /\ ~overlay_visible)

\* C10 (SpecSeq): the tray entry "show_overlay" runs on the worker thread and
\* not on the event-loop thread; the worker leaves the overlay and the flag
\* alone until it has hidden the main window, writes the flag only after
\* the overlay has been created or shown, and when no native call fails it
\* ends with the overlay shown, the main window hidden and the flag true.
C10_WorkerOrder ==
    LET w == cmd[Wk] = "tray_show_overlay"
        fine == ~loc[Wk].failed /\ pre.mainWin # "closed"
    IN  /\ pc[Wk] # "idle" => (w /\ pc[Ev] = "idle")
        /\ cmd[Ev] # "tray_show_overlay"
        /\ pc[Wk] \in {"wk_settings", "wk_hide_main"} =>
              /\ overlay = pre.overlay
              /\ mainWin = pre.mainWin
              /\ overlay_visible = pre.flag
        /\ pc[Wk] \in {"wk_check", "cw_check", "cw_build", "cw_top", "cw_click", "wk_show"} =>
              /\ fine => mainWin = "hidden"
              /\ overlay_visible = pre.flag
        /\ pc[Wk] \in {"wk_vlock", "wk_set"} =>
              /\ fine => (mainWin = "hidden" /\ Shown(overlay))
              /\ overlay_visible = pre.flag
        /\ (pc[Wk] = "done" /\ fine) =>
              /\ ret[Wk] = "ok"
              /\ Shown(overlay) /\ mainWin = "hidden" /\ overlay_visible

C10_Witness ==
    /\ Done(Wk, "tray_show_overlay")
    /\ ~loc[Wk].failed
    /\ pre.mainWin = "shown" /\ ~Exists(pre.overlay) /\ ~pre.flag
    /\ Shown(overlay) /\ mainWin = "hidden" /\ overlay_visible

\* C11 (SpecSeq): when the tray worker has finished and the main window
\* exists, the main window or the overlay is visible, and a worker that gave
\* up left the flag as it was.
C11_WorkerNeverLeavesNothing ==
    (Done(Wk, "tray_show_overlay") /\ pre.mainWin # "closed") =>
        /\ mainWin = "shown" \/ Shown(overlay)
        /\ ret[Wk] = "err" => overlay_visible = pre.flag

\* C12 (SpecSeq): on the UI commands and on the tray worker the flag is
\* written only after the native action has succeeded or was a no-op: a
\* write of true finds the overlay window existing and shown, a write of
\* false by hide_overlay or close_overlay finds it not shown.
C12_FlagWrittenAfterSuccess ==
    [][\A t \in UIThreads \cup {Wk} :
          /\ (pc[t] \in {"so_set", "wk_set"} /\ pc'[t] = "done")
                => (overlay_visible' /\ Shown(overlay))
          /\ (pc[t] \in {"ho_set", "co_set"} /\ pc'[t] = "done")
                => (~overlay_visible' /\ ~Shown(overlay))]_vars

\* C13 (SpecSeq): show_overlay, hide_overlay and close_overlay return Err
\* exactly when a native call failed, and then the flag keeps the value it
\* had; otherwise they return Ok with the flag true after show_overlay and
\* false after hide_overlay and close_overlay; hide_overlay and
\* close_overlay of an absent overlay return Ok and leave it absent.
C13_ErrKeepsFlag ==
    \A t \in UIThreads, c \in {"show_overlay", "hide_overlay", "close_overlay"} :
        Done(t, c) =>
            /\ ret[t] \in {"ok", "err"}
            /\ ret[t] = "err" <=> loc[t].failed
            /\ ret[t] = "err" => overlay_visible = pre.flag
            /\ ret[t] = "ok" => (overlay_visible <=> c = "show_overlay")
            /\ (ret[t] = "ok" /\ c = "show_overlay") => Shown(overlay)
            /\ (c # "show_overlay" /\ ~Exists(pre.overlay)) =>
                  (ret[t] = "ok" /\ ~Exists(overlay))

C13_Witness ==
    \E t \in UIThreads :
        /\ Done(t, "hide_overlay")
        /\ ret[t] = "err"
        /\ pre.flag /\ overlay_visible /\ Shown(overlay)

\* C14 (SpecSeq): close_app closes the overlay, then resets the flag, then
\* closes the main window, then exits; every close_app that has returned and
\* every tray "quit" that has run has ended with both windows closed and the
\* process terminated.
C14_CloseAppEnds ==
    /\ \A t \in UIThreads :
          cmd[t] = "close_app" =>
            /\ pc[t] \in {"ca_vlock", "ca_set"} =>
                  (overlay_visible = pre.flag /\ mainWin = pre.mainWin)
            /\ pc[t] = "ca_main" => (~overlay_visible /\ mainWin = pre.mainWin)
            /\ pc[t] = "ca_exit" => (~overlay_visible /\ mainWin = "closed" /\ running)
            /\ pc[t] = "done" =>
                  (~running /\ ~Exists(overlay) /\ mainWin = "closed" /\ ~overlay_visible)
    /\ Done(Ev, "tray_quit") => (~running /\ ~Exists(overlay) /\ mainWin = "closed")

\* C15 (SpecHotkey): a press of the global shortcut only sends the
\* "toggle-overlay" event: the step leaves the flag, the settings, both
\* windows, the locks and every running command as they are.
C15_HotkeyOnlyEmits ==
    [][emitted' # emitted =>
          /\ emitted' = emitted + 1
          /\ UNCHANGED <<overlay, mainWin, overlay_visible, settings, settingsLock,
                         visLock, pc, cmd, ret, loc, closeNotif, running>>]_vars

C15_Witness ==
    /\ emitted > 0
    /\ overlay_visible /\ Shown(overlay)
    /\ mainWin = "shown"

\* C16 (SpecSetters): set_overlay_position, set_overlay_size and
\* set_click_through change the one attribute of an existing overlay window
\* and return Ok, or return Err after a failed native call and leave the
\* window as it was; with the overlay absent they return Ok and do nothing;
\* they never create a window and never change whether the overlay is shown,
\* the flag or the main window.
C16_SettersOnlySet ==
    \A t \in UIThreads, c \in SetterCommands :
        Done(t, c) =>
            /\ overlay.count = pre.overlay.count
            /\ overlay.shown = pre.overlay.shown
            /\ overlay_visible = pre.flag
            /\ mainWin = pre.mainWin
            /\ ret[t] \in {"ok", "err"}
            /\ ret[t] = "err" <=> loc[t].failed
            /\ ret[t] = "err" => overlay = pre.overlay
            /\ ~Exists(pre.overlay) => (ret[t] = "ok" /\ overlay = pre.overlay)
            /\ (Exists(pre.overlay) /\ ret[t] = "ok") =>
                  /\ overlay = [pre.overlay EXCEPT
                                  !.pos = IF c = "set_overlay_position"
                                          THEN loc[t].arg ELSE @,
                                  !.size = IF c = "set_overlay_size"
                                           THEN loc[t].arg ELSE @,
                                  !.ignore_cursor = IF c = "set_click_through"
                                                    THEN loc[t].arg ELSE @]

C16_Witness ==
    \E t \in UIThreads :
        /\ Done(t, "set_overlay_position")
        /\ ret[t] = "ok"
        /\ Exists(pre.overlay) /\ ~pre.overlay.shown
        /\ overlay.pos = loc[t].arg /\ overlay.pos # pre.overlay.pos
        /\ ~overlay.shown

SaveDone(t) == pc[t] = "done" /\ cmd[t] \in SettingsCommands

\* C17 (SpecLoad): a settings command whose save failed has left the
\* settings file as it was before the command and the in-memory snapshot a
\* complete AppSettings.
C17_FailedSaveKeepsFile ==
    \A t \in UIThreads :
        (SaveDone(t) /\ ret[t] = "err") =>
            /\ file = pre.file
            /\ settings \in AllSettings

C19_LoadFillsDefaults ==
    Done(Ev, "run") =>
        /\ settings \in AllSettings
        /\ (file.kind # "json" \/ loc[Ev].failed) => settings = DefaultSettings
        /\ (file.kind = "json" /\ ~loc[Ev].failed) =>
              LET j == file.json
                  read == FromStr(j).value
                  has(k) == j[k].t # "missing"
              IN  settings =
                    [click_through |-> IF has("clickThrough") THEN read.click_through
                                       ELSE DefaultSettings.click_through,
                     opacity |-> IF has("opacity") THEN read.opacity
                                 ELSE DefaultSettings.opacity,
                     color |-> IF has("color") THEN read.color
                               ELSE DefaultSettings.color,
                     line_height |-> IF has("lineHeight") THEN read.line_height
                                     ELSE DefaultSettings.line_height,
                     last_session_code |-> IF has("lastSessionCode")
                                           THEN read.last_session_code
                                           ELSE DefaultSettings.last_session_code]

\* C20 (SpecSaves): at most one settings command at a time is between
\* taking the settings lock and the end of its file write; whenever no
\* settings command is executing and no save has failed, the settings file
\* reads back as the in-memory snapshot, and once a save has been made its
\* content is the serialized snapshot.
InSave(t) == pc[t] \in {"st_assign", "sv_ser", "fs_create", "fs_write"}

C20_SavesSerialized ==
    /\ \A t \in UIThreads, u \in UIThreads : (InSave(t) /\ InSave(u)) => t = u
    /\ \A t \in UIThreads : InSave(t) => settingsLock = t
    /\ (Quiescent /\ saves # "failed") => LoadSettings(file, TRUE) = settings
    /\ (Quiescent /\ saves = "ok") => file = JsonFile(Serialize(settings))

C20_Witness ==
    \E t \in UIThreads, u \in UIThreads :
        /\ t # u
        /\ Done(t, "save_settings") /\ Done(u, "set_last_session_code")
        /\ ret[t] = "ok" /\ ret[u] = "ok"
        /\ saves = "ok"
        /\ settings # loc[t].arg
        /\ file = JsonFile(Serialize(settings))

\* C21 (SpecCreate): at most one overlay window exists, and a show_overlay,
\* a toggle_overlay or the tray worker that ended in an error although none
\* of its native calls failed has not left an overlay window existing.
C21_OneOverlayNoLostRace ==
    /\ overlay.count <= 1
    /\ \A t \in UIThreads \cup {Wk} :
          ( /\ pc[t] = "done"
            /\ cmd[t] \in {"show_overlay", "toggle_overlay", "tray_show_overlay"}
            /\ ret[t] = "err"
            /\ ~loc[t].failed )
          => ~Exists(overlay)

\* positions at which a thread is about to take the settings lock, and the
\* overlay_visible lock
SettingsAcq == {"so_lock", "st_lock", "gs_lock", "wk_settings"}
VisAcq == {"so_vlock", "ho_vlock", "co_vlock", "to_lock", "gv_lock", "ca_vlock",
           "sm_vlock", "mc_vlock", "wk_vlock"}

Active(t) == pc[t] \notin {"idle", "done"}

\* t is at a lock() call and another thread holds that lock
Waiting(t) ==
    \/ pc[t] \in SettingsAcq /\ settingsLock # Free
    \/ pc[t] \in VisAcq /\ visLock # Free

\* C22 (SpecLocks): no thread asks for the settings lock while it holds the
\* overlay_visible lock, and no thread asks for a lock it holds; the holder
\* of the overlay_visible lock is a running trigger that waits for no lock,
\* the holder of the settings lock is a running trigger that waits at most
\* for the overlay_visible lock; so while a trigger is running, some running
\* trigger is not waiting for a lock.
C22_NoLockOrderDeadlock ==
    running =>
        /\ \A t \in Threads :
              /\ pc[t] \in SettingsAcq => (visLock # t /\ settingsLock # t)
              /\ pc[t] \in VisAcq => visLock # t
              /\ visLock = t => (Active(t) /\ ~Waiting(t))
              /\ settingsLock = t => (Active(t) /\ (Waiting(t) => pc[t] \in VisAcq))
        /\ (\E t \in Threads : Active(t)) => (\E t \in Threads : Active(t) /\ ~Waiting(t))

C22_Witness ==
    \E t \in UIThreads, u \in Threads :
        /\ t # u
        /\ settingsLock = t /\ pc[t] = "so_vlock"
        /\ visLock = u
        /\ Waiting(t) /\ ~Waiting(u)

====
